---- MODULE Spec2Model ----
(***************************************************************************)
(* Model of src/module/transferable.cc of isolated-vm: the transfer        *)
(* options, the transfer dispatch (OptionalTransferOut / TransferOut) and   *)
(* the cross-isolate promise bridge (TransferablePromiseHolder,             *)
(* TransferablePromise, ResolveTask) over one shared, lock-protected        *)
(* TransferablePromiseStateStruct.                                          *)
(***************************************************************************)
EXTENDS Integers, Sequences, FiniteSets, TLC

\* ------------------------------------------------------------------ bounds

\* Number of destination-side TransferIn calls made on the one bridge.
MaxWaiters == 3
\* Number of destination isolates (realms) a TransferIn call can run in.
MaxRealms == 2

Waiters == 1..MaxWaiters
Realms == 1..MaxRealms

\* ------------------------------------------------------------------ values

\* Shapes of the JavaScript values handed to the dispatch.  A promise is a
\* value of shape "promise" with its v8 state and, once settled, its result.
PrimitiveShapes == {"boolean", "number", "string", "null", "undefined"}
ObjectShapes == {"plainObject", "errorObject", "transferableHandle"}
PlainShapes == PrimitiveShapes \cup ObjectShapes
\* Results a promise of the model fulfils or rejects with.
ResultShapes == {"number", "plainObject", "errorObject"}
PromiseStates == {"kPending", "kFulfilled", "kRejected"}

PlainValue(s) == [shape |-> s, pstate |-> "na", result |-> "na"]
PromiseValue(ps, r) == [shape |-> "promise", pstate |-> ps, result |-> r]

Values ==
    {PlainValue(s) : s \in PlainShapes}
      \cup {PromiseValue("kPending", "na")}
      \cup {PromiseValue(ps, r) : ps \in {"kFulfilled", "kRejected"}, r \in ResultShapes}

IsPromise(v) == v.shape = "promise"
IsObject(v) == v.shape \in ObjectShapes \cup {"promise"}

\* ------------------------------------------------------------- transferables

\* A Transferable is a record of its variant and what it was made of; Nothing
\* is the null unique_ptr and Thrown(m) an exception leaving the call.
Transferable(variant, of) == [variant |-> variant, of |-> of]
Nothing == Transferable("Nothing", "na")
Thrown(message) == Transferable("Thrown", message)
IsThrown(t) == t.variant = "Thrown"

NonTransferableMessage == "A non-transferable value was passed"

\* The character that encloses the option names in the message of
\* ParseOptions, as its character code: a string here cannot hold it.
Backtick == 96

\* The message of ParseOptions, piece by piece, each backtick of the text in
\* its place.
OnlyOneMessage ==
    <<"Only one of ", Backtick, "copy", Backtick, ", ",
      Backtick, "externalCopy", Backtick, ", or ",
      Backtick, "reference", Backtick, " may be set">>

AbandonedMessage == "Promise was abandoned"

\* ExternalCopy::CopyIfPrimitive: a copy for primitives, null otherwise.
CopyIfPrimitive(v) ==
    IF v.shape \in PrimitiveShapes THEN Transferable("Copy", v.shape) ELSE Nothing

\* ExternalCopy::Copy: the structural deep copy.
Copy(v) == Transferable("Copy", v.shape)

\* ExternalCopy::CopyIfPrimitiveOrError: always yields a copy; an Error object
\* becomes an error copy and any other object a generic error marker.
CopyIfPrimitiveOrError(v) ==
    IF v.shape \in PrimitiveShapes THEN Transferable("Copy", v.shape)
    ELSE IF v.shape = "errorObject" THEN Transferable("ErrorCopy", "errorObject")
    ELSE Transferable("ErrorCopy", "notAnError")

\* ExternalCopyHandle::ExternalCopyTransferable wrapping a copy.
ExternalCopyTransferable(c) == Transferable("ExternalCopy", c.of)

\* ReferenceHandleTransferable: an opaque reference to the original value.
ReferenceHandleTransferable(v) == Transferable("Reference", v.shape)

\* ClassHandle::Unwrap<TransferableHandle>: non-null for handle objects only.
UnwrapTransferableHandle(v) == v.shape = "transferableHandle"
\* TransferableHandle::TransferOut of such a handle.
HandleTransferOut(v) == Transferable("Native", v.shape)

\* The TransferablePromise of the one bridge of the model.
PromiseTransferable == Transferable("Promise", "bridge")

\* std::make_shared<ExternalCopyError>(Error, message).
ExternalCopyError(message) == Transferable("ErrorCopy", message)

\* Transferable::TransferIn of a stored (non-promise) transferable: the value
\* it materializes as in the isolate that runs it.
Materialize(t) ==
    CASE t.variant = "Copy" -> [kind |-> "value", of |-> t.of]
      [] t.variant = "ExternalCopy" -> [kind |-> "externalCopyHandle", of |-> t.of]
      [] t.variant = "Reference" -> [kind |-> "referenceHandle", of |-> t.of]
      [] t.variant = "Native" -> [kind |-> "native", of |-> t.of]
      [] t.variant = "ErrorCopy" -> [kind |-> "error", of |-> t.of]
      [] OTHER -> [kind |-> "none", of |-> t.of]

\* ------------------------------------------------------------------ options

Types == {"None", "Copy", "ExternalCopy", "Reference"}

\* The options bag read by ParseOptions; present = FALSE is the empty
\* MaybeLocal of the second constructor.
RawOptions ==
    {r \in [present : BOOLEAN, copy : BOOLEAN, externalCopy : BOOLEAN,
            reference : BOOLEAN, promise : BOOLEAN] :
        r.present \/ ~(r.copy \/ r.externalCopy \/ r.reference \/ r.promise)}

\* A TransferableOptions object; ok = FALSE when its constructor threw.
Options(ok, type, fallback, promise) ==
    [ok |-> ok, type |-> type, fallback |-> fallback, promise |-> promise]

\* ParseOptions whose test leaves out the pair copy and reference.
ParseOptionsTwoPairs(bag, fallback) ==
    IF (bag.copy /\ bag.externalCopy) \/ (bag.externalCopy /\ bag.reference)
    THEN Options(FALSE, "None", fallback, FALSE)
    ELSE Options(TRUE,
                 IF bag.copy THEN "Copy"
                 ELSE IF bag.externalCopy THEN "ExternalCopy"
                 ELSE IF bag.reference THEN "Reference"
                 ELSE "None",
                 fallback, bag.promise)

\* TransferableOptions::ParseOptions on a TransferableOptions whose fallback
\* the constructor has set; type and promise start as None and false.
ParseOptions(bag, fallback) ==
    IF (bag.copy /\ bag.externalCopy) \/ (bag.copy /\ bag.reference)
         \/ (bag.externalCopy /\ bag.reference)
    THEN Options(FALSE, "None", fallback, FALSE)
    ELSE Options(TRUE,
                 IF bag.copy THEN "Copy"
                 ELSE IF bag.externalCopy THEN "ExternalCopy"
                 ELSE IF bag.reference THEN "Reference"
                 ELSE "None",
                 fallback, bag.promise)

\* TransferableOptions(MaybeLocal<Object>, Type): parses only a present bag.
MakeOptions(bag, fallback) ==
    IF bag.present THEN ParseOptions(bag, fallback)
    ELSE Options(TRUE, "None", fallback, FALSE)

\* ----------------------------------------------------------------- dispatch

\* The lambda TransferWithType of OptionalTransferOut.
TransferWithType(v, type) ==
    CASE type = "Copy" -> Copy(v)
      [] type = "ExternalCopy" -> ExternalCopyTransferable(Copy(v))
      [] type = "Reference" -> ReferenceHandleTransferable(v)
      [] OTHER -> Nothing

\* TypeDispatch that tries the fallback type before the handle and the
\* primitive copy.
TypeDispatchFallbackFirst(v, o) ==
    IF o.type = "None"
    THEN IF TransferWithType(v, o.fallback) # Nothing
         THEN TransferWithType(v, o.fallback)
         ELSE IF IsObject(v) /\ UnwrapTransferableHandle(v) THEN HandleTransferOut(v)
         ELSE CopyIfPrimitive(v)
    ELSE TransferWithType(v, o.type)

\* OptionalTransferOut below the promise branch (the switch on options.type).
TypeDispatch(v, o) ==
    IF o.type = "None"
    THEN IF IsObject(v) /\ UnwrapTransferableHandle(v) THEN HandleTransferOut(v)
         ELSE IF CopyIfPrimitive(v) # Nothing THEN CopyIfPrimitive(v)
         ELSE TransferWithType(v, o.fallback)
    ELSE TransferWithType(v, o.type)

\* OptionalTransferOut taking the promise branch for promises only.
OptionalTransferOutPromisesOnly(v, o) ==
    IF o.promise /\ IsPromise(v) THEN PromiseTransferable ELSE TypeDispatch(v, o)

\* Transferable::OptionalTransferOut, as a value: the promise branch yields
\* the TransferablePromise (its constructor's effects are in the actions).
OptionalTransferOut(v, o) ==
    IF o.promise THEN PromiseTransferable ELSE TypeDispatch(v, o)

\* TransferOut without the null test: it returns what OptionalTransferOut did.
TransferOutUnchecked(v, o) == OptionalTransferOut(v, o)

\* Transferable::TransferOut: the strict form.
TransferOut(v, o) ==
    IF OptionalTransferOut(v, o) = Nothing THEN Thrown(NonTransferableMessage)
    ELSE OptionalTransferOut(v, o)

\* ------------------------------------------------------------------- state

VARIABLES
    phase,       \* "start", "parsed", "failed" (ParseOptions threw),
                 \* "constructing" (inside the TransferablePromise constructor),
                 \* "transferred" (the transfer-out call is over)
    raw,         \* the options bag the caller passed
    options,     \* the TransferableOptions the caller built
    call,        \* the transfer-out call made: its value and whether it is strict
    result,      \* what the transfer-out call returned or threw
    holder,      \* the TransferablePromiseHolder: its options and its lifetime
    state,       \* the shared TransferablePromiseStateStruct
    lock,        \* who holds state->write()
    save,        \* the calls of Save, one per settlement trigger
    transferIn,  \* the destination-side TransferIn calls
    resolvers,   \* what each call's Promise::Resolver was resolved/rejected with
    tasks,       \* per isolate, the ResolveTasks scheduled and not yet run
    scheduled,   \* every ScheduleTask call of Save, in call order
    registered,  \* every waiting.emplace_back of TransferIn, in call order
    settledBy    \* the Save calls that took the !resolved branch, in order

vars == <<phase, raw, options, call, result, holder, state, lock, save, transferIn,
          resolvers, tasks, scheduled, registered, settledBy>>

Triggers == {"Resolved", "Rejected", "Destructor"}

\* lockable_t: the lock is free or held by one Save or one TransferIn call.
Free == [save |-> "none", transferIn |-> 0]
HeldBySave(t) == [save |-> t, transferIn |-> 0]
HeldByTransferIn(w) == [save |-> "none", transferIn |-> w]

\* TransferablePromiseStateStruct as default-constructed.
InitialState ==
    [value |-> Nothing, waiting |-> <<>>, did_throw |-> FALSE, resolved |-> FALSE]

\* No JavaScript value: the argument slot of a Save call that holds none.
NoValue == PlainValue("na")

IdleSave ==
    [pc |-> "idle", did_throw |-> FALSE, arg |-> NoValue,
     resolved_value |-> Nothing, pending_tasks |-> <<>>]

NoHolder ==
    [exists |-> FALSE, transfer_options |-> Options(TRUE, "None", "None", FALSE),
     accepted |-> "none", destroyed |-> FALSE]

Init ==
    /\ phase = "start"
    /\ raw = [present |-> FALSE, copy |-> FALSE, externalCopy |-> FALSE,
              reference |-> FALSE, promise |-> FALSE]
    /\ options = Options(TRUE, "None", "None", FALSE)
    /\ call = [value |-> NoValue, strict |-> FALSE]
    /\ result = Nothing
    /\ holder = NoHolder
    /\ state = InitialState
    /\ lock = Free
    /\ save = [t \in Triggers |-> IdleSave]
    /\ transferIn = [w \in Waiters |-> [pc |-> "idle", realm |-> 0]]
    /\ resolvers = [w \in Waiters |-> <<>>]
    /\ tasks = [r \in Realms |-> <<>>]
    /\ scheduled = <<>>
    /\ registered = <<>>
    /\ settledBy = <<>>

\* ------------------------------------------------------------- Save, pure

\* DidThrowArg with the destructor passing false like Resolved.
DidThrowArgRejectedOnly(t) == t = "Rejected"

\* The did_throw argument each trigger passes to Save.
DidThrowArg(t) == t # "Resolved"

\* Callback whose rejection path transfers the reason out with the holder's
\* options, as the fulfilment path does.
CallbackRejectedTransfersOut(t, arg, opts) ==
    CASE t = "Resolved" -> TransferOut(arg, opts)
      [] t = "Rejected" -> TransferOut(arg, opts)
      [] OTHER -> ExternalCopyError(AbandonedMessage)

\* The callback each trigger passes to Save, as the value it returns or the
\* exception it throws: Resolved transfers the value out with the holder's
\* options, Rejected copies the reason, the destructor makes the abandonment
\* error.
Callback(t, arg, opts) ==
    CASE t = "Resolved" -> TransferOut(arg, opts)
      [] t = "Rejected" -> CopyIfPrimitiveOrError(arg)
      [] OTHER -> ExternalCopyError(AbandonedMessage)

\* Settle without the test of resolved: every call stores its outcome.
SettleAlways(st, did_throw, cb) ==
    IF IsThrown(cb)
    THEN [state |-> [st EXCEPT !.resolved = TRUE,
                               !.value = ExternalCopyError(cb.of),
                               !.did_throw = TRUE],
          did_throw |-> TRUE, wrote |-> TRUE]
    ELSE [state |-> [st EXCEPT !.resolved = TRUE,
                               !.value = cb,
                               !.did_throw = did_throw],
          did_throw |-> did_throw, wrote |-> TRUE]

\* Settle assigning lock->did_throw outside the if, on every call.
SettleRewritesFlag(st, did_throw, cb) ==
    IF ~st.resolved
    THEN IF IsThrown(cb)
         THEN [state |-> [st EXCEPT !.resolved = TRUE,
                                    !.value = ExternalCopyError(cb.of),
                                    !.did_throw = TRUE],
               did_throw |-> TRUE, wrote |-> TRUE]
         ELSE [state |-> [st EXCEPT !.resolved = TRUE,
                                    !.value = cb,
                                    !.did_throw = did_throw],
               did_throw |-> did_throw, wrote |-> TRUE]
    ELSE [state |-> [st EXCEPT !.did_throw = did_throw],
          did_throw |-> did_throw, wrote |-> FALSE]

\* Settle whose error functor sets lock->did_throw but not the local
\* did_throw the tasks are made with.
SettleErrorKeepsLocalFlag(st, did_throw, cb) ==
    IF ~st.resolved
    THEN IF IsThrown(cb)
         THEN [state |-> [st EXCEPT !.resolved = TRUE,
                                    !.value = ExternalCopyError(cb.of),
                                    !.did_throw = TRUE],
               did_throw |-> did_throw, wrote |-> TRUE]
         ELSE [state |-> [st EXCEPT !.resolved = TRUE,
                                    !.value = cb,
                                    !.did_throw = did_throw],
               did_throw |-> did_throw, wrote |-> TRUE]
    ELSE [state |-> st, did_throw |-> did_throw, wrote |-> FALSE]

\* Settle storing the callback's value outside the if, on every call.
SettleStoresAlways(st, did_throw, cb) ==
    IF ~st.resolved
    THEN IF IsThrown(cb)
         THEN [state |-> [st EXCEPT !.resolved = TRUE,
                                    !.value = ExternalCopyError(cb.of),
                                    !.did_throw = TRUE],
               did_throw |-> TRUE, wrote |-> TRUE]
         ELSE [state |-> [st EXCEPT !.resolved = TRUE,
                                    !.value = cb,
                                    !.did_throw = did_throw],
               did_throw |-> did_throw, wrote |-> TRUE]
    ELSE [state |-> [st EXCEPT !.value = IF IsThrown(cb) THEN ExternalCopyError(cb.of)
                                         ELSE cb],
          did_throw |-> did_throw, wrote |-> FALSE]

\* Save, the if statement of its critical section: an unresolved state is
\* marked resolved and takes the callback's value with the did_throw argument,
\* or, when the callback threw, the error copy with did_throw forced true
\* (FunctorRunners::RunCatchExternal hands the exception to the second
\* functor).  wrote tells whether the branch was taken.
Settle(st, did_throw, cb) ==
    IF ~st.resolved
    THEN IF IsThrown(cb)
         THEN [state |-> [st EXCEPT !.resolved = TRUE,
                                    !.value = ExternalCopyError(cb.of),
                                    !.did_throw = TRUE],
               did_throw |-> TRUE, wrote |-> TRUE]
         ELSE [state |-> [st EXCEPT !.resolved = TRUE,
                                    !.value = cb,
                                    !.did_throw = did_throw],
               did_throw |-> did_throw, wrote |-> TRUE]
    ELSE [state |-> st, did_throw |-> did_throw, wrote |-> FALSE]

\* Drain copying waiting instead of exchanging it with an empty queue.
DrainKeepsWaiting(st) ==
    [state |-> st,
     resolved_value |-> st.value,
     pending_tasks |-> st.waiting]

\* Drain handing the drained resolvers over newest first.
DrainLifo(st) ==
    [state |-> [st EXCEPT !.waiting = <<>>],
     resolved_value |-> st.value,
     pending_tasks |-> [i \in 1..Len(st.waiting) |->
                          st.waiting[Len(st.waiting) + 1 - i]]]

\* Save, the rest of the critical section: resolved_value = lock->value and
\* std::exchange(lock->waiting, {}).
Drain(st) ==
    [state |-> [st EXCEPT !.waiting = <<>>],
     resolved_value |-> st.value,
     pending_tasks |-> st.waiting]

\* The whole lambda of Save that runs under state->write().
SaveCritical(st, did_throw, cb) ==
    LET s == Settle(st, did_throw, cb)
        d == Drain(s.state)
    IN  [state |-> d.state, did_throw |-> s.did_throw, wrote |-> s.wrote,
         resolved_value |-> d.resolved_value, pending_tasks |-> d.pending_tasks]

\* The ResolveTask Save makes for one drained resolver; realm is the isolate
\* resolver.GetIsolateHolder() names, the one whose TransferIn made it.
ResolveTask(w, value, did_throw) ==
    [resolver |-> w, realm |-> transferIn[w].realm, value |-> value,
     did_throw |-> did_throw]

\* ResolveTask::Run: what the resolver is told.
RunOutcome(task) ==
    [via |-> "task", rejected |-> task.did_throw, value |-> Materialize(task.value)]

\* MakeHolder handing the caller's options to the holder as they are.
MakeHolderKeepsPromise(o) ==
    [exists |-> TRUE, transfer_options |-> o,
     accepted |-> "none", destroyed |-> FALSE]

\* TransferablePromise::MakeHolder: the holder keeps the options with promise
\* forced off.
MakeHolder(o) ==
    [exists |-> TRUE, transfer_options |-> [o EXCEPT !.promise = FALSE],
     accepted |-> "none", destroyed |-> FALSE]

\* SyncTrigger with the two branches of Accept's else exchanged.
SyncTriggerSwapped(v) ==
    IF ~IsPromise(v) THEN "Resolved"
    ELSE IF v.pstate = "kPending" THEN "none"
    ELSE IF v.pstate = "kFulfilled" THEN "Rejected"
    ELSE "Resolved"

\* Which settlement the constructor runs synchronously: the value constructor
\* calls Resolved, Accept calls Resolved or Rejected for a settled promise and
\* neither for a pending one.
SyncTrigger(v) ==
    IF ~IsPromise(v) THEN "Resolved"
    ELSE IF v.pstate = "kPending" THEN "none"
    ELSE IF v.pstate = "kFulfilled" THEN "Resolved"
    ELSE "Rejected"

\* The value that settlement is called with: the value itself or
\* promise->Result().
SyncArg(v) == IF IsPromise(v) THEN PlainValue(v.result) ELSE v

\* What the holder was given: a non-promise value, or a promise in the state
\* Accept read.
AcceptedAs(v) == IF IsPromise(v) THEN v.pstate ELSE "value"

\* ---------------------------------------------------------- option parsing

\* The caller builds a TransferableOptions from an options bag and a fallback.
ParseOptionsCall ==
    /\ phase = "start"
    /\ \E bag \in RawOptions, fallback \in Types :
         /\ raw' = bag
         /\ options' = MakeOptions(bag, fallback)
         /\ phase' = IF MakeOptions(bag, fallback).ok THEN "parsed" ELSE "failed"
         /\ result' = IF MakeOptions(bag, fallback).ok THEN Nothing
                      ELSE Thrown(OnlyOneMessage)
    /\ UNCHANGED <<call, holder, state, lock, save, transferIn, resolvers, tasks,
                   scheduled, registered, settledBy>>

\* ------------------------------------------------------------ transfer out

\* A transfer-out call without the promise option: the strict TransferOut or
\* the optional OptionalTransferOut on any value.
TransferOutCall ==
    /\ phase = "parsed"
    /\ ~options.promise
    /\ \E v \in Values, strict \in BOOLEAN :
         /\ call' = [value |-> v, strict |-> strict]
         /\ result' = IF strict THEN TransferOut(v, options)
                      ELSE OptionalTransferOut(v, options)
    /\ phase' = "transferred"
    /\ UNCHANGED <<raw, options, holder, state, lock, save, transferIn, resolvers,
                   tasks, scheduled, registered, settledBy>>

\* A transfer-out call with the promise option: OptionalTransferOut builds the
\* TransferablePromise, whose constructor makes the holder (MakeHolder) and
\* either attaches it to a pending promise and returns, or calls Resolved or
\* Rejected, whose Save takes the lock of the new state at once.  The call
\* returns when that Save returns (SaveReturn).
TransferOutPromise ==
    /\ phase = "parsed"
    /\ options.promise
    /\ \E v \in Values, strict \in BOOLEAN :
         LET t == SyncTrigger(v)
         IN  /\ call' = [value |-> v, strict |-> strict]
             /\ result' = IF strict THEN TransferOut(v, options)
                          ELSE OptionalTransferOut(v, options)
             /\ holder' = [MakeHolder(options) EXCEPT !.accepted = AcceptedAs(v)]
             /\ IF t = "none"
                THEN /\ phase' = "transferred"
                     /\ UNCHANGED <<lock, save>>
                ELSE /\ phase' = "constructing"
                     /\ lock' = HeldBySave(t)
                     /\ save' = [save EXCEPT ![t] =
                                   [@ EXCEPT !.pc = "locked",
                                             !.did_throw = DidThrowArg(t),
                                             !.arg = SyncArg(v)]]
    /\ UNCHANGED <<raw, options, state, transferIn, resolvers, tasks, scheduled,
                   registered, settledBy>>

\* ------------------------------------------------------------- Save, steps

\* A Save call may start once the transfer-out call is over and while the
\* holder is alive; the continuations only on a holder that Accept attached
\* to a pending promise.  Each of Resolved, Rejected and the destructor calls
\* Save at most once, in any order: that v8 fires only one continuation is
\* not relied on.  The holder lives in the source isolate, which runs one
\* thing at a time: no other Save call of the holder is in progress.
CanCall(t) ==
    /\ phase = "transferred"
    /\ holder.exists
    /\ ~holder.destroyed
    /\ save[t].pc = "idle"
    /\ t \in {"Resolved", "Rejected"} => holder.accepted = "kPending"
    /\ \A u \in Triggers : save[u].pc \in {"idle", "done"}

\* Save reaches auto lock = state->write(): the call starts and takes the lock.
SaveLock(t, arg) ==
    /\ CanCall(t)
    /\ lock = Free
    /\ lock' = HeldBySave(t)
    /\ save' = [save EXCEPT ![t] = [@ EXCEPT !.pc = "locked",
                                             !.did_throw = DidThrowArg(t),
                                             !.arg = arg]]
    /\ holder' = IF t = "Destructor" THEN [holder EXCEPT !.destroyed = TRUE]
                 ELSE holder
    /\ UNCHANGED <<phase, raw, options, call, result, state, transferIn, resolvers,
                   tasks, scheduled, registered, settledBy>>

\* The fulfilment continuation fires with the promise's value.
Resolved == \E r \in ResultShapes : SaveLock("Resolved", PlainValue(r))

\* The rejection continuation fires with the promise's reason.
Rejected == \E r \in ResultShapes : SaveLock("Rejected", PlainValue(r))

\* The holder is destroyed.
Destructor == SaveLock("Destructor", NoValue)

\* The lock declared in Save's own scope: still held when the lambda is over.
LockAfterCriticalHeld(t) == HeldBySave(t)

\* The lock when the lambda of Save returns: auto lock is a local of the
\* lambda and is released with it.
LockAfterCritical(t) == Free

\* Save runs its critical section and releases the lock.
SaveLocked(t) ==
    /\ save[t].pc = "locked"
    /\ lock = HeldBySave(t)
    /\ LET c == SaveCritical(state, save[t].did_throw,
                             Callback(t, save[t].arg, holder.transfer_options))
       IN  /\ state' = c.state
           /\ save' = [save EXCEPT ![t] =
                         [pc |-> "schedule", did_throw |-> c.did_throw,
                          arg |-> NoValue,
                          resolved_value |-> c.resolved_value,
                          pending_tasks |-> c.pending_tasks]]
           /\ settledBy' = IF c.wrote THEN Append(settledBy, t) ELSE settledBy
    /\ lock' = LockAfterCritical(t)
    /\ UNCHANGED <<phase, raw, options, call, result, holder, transferIn, resolvers,
                   tasks, scheduled, registered>>

\* IsolateHolder::ScheduleTask(task, run_inline, flag) called from the thread
\* of isolate current: a task for the current isolate is run on the spot when
\* run_inline asks for it, every other task goes to the back of the queue of
\* the task's isolate.  The last flag does not change where the task runs.
ScheduleTask(task, run_inline, flag, current) ==
    IF run_inline /\ task.realm = current THEN "run" ELSE "queue"

\* The call of Save's loop with run_inline passed as true.
ScheduleCallInline(task, current) == ScheduleTask(task, TRUE, TRUE, current)

\* The call of Save's loop: holder->ScheduleTask(task, false, true) on the
\* holder of the resolver's isolate.
ScheduleCall(task, current) == ScheduleTask(task, FALSE, TRUE, current)

\* One iteration of Save's loop: the next drained resolver gets its
\* ResolveTask, handed to its isolate by ScheduleTask.  Save may be running
\* on the thread of any isolate.
SaveSchedule(t) ==
    /\ save[t].pc = "schedule"
    /\ save[t].pending_tasks # <<>>
    /\ \E current \in Realms :
         LET task == ResolveTask(Head(save[t].pending_tasks),
                                 save[t].resolved_value, save[t].did_throw)
         IN  /\ IF ScheduleCall(task, current) = "run"
                THEN /\ resolvers' = [resolvers EXCEPT ![task.resolver] =
                                        Append(@, RunOutcome(task))]
                     /\ tasks' = tasks
                ELSE /\ tasks' = [tasks EXCEPT ![task.realm] = Append(@, task)]
                     /\ resolvers' = resolvers
             /\ scheduled' = Append(scheduled, task)
    /\ save' = [save EXCEPT ![t].pending_tasks = Tail(@)]
    /\ UNCHANGED <<phase, raw, options, call, result, holder, state, lock, transferIn,
                   registered, settledBy>>

\* Save returns once the loop is over, which ends the life of every local it
\* still has; a Save the constructor called ends the transfer-out call with it.
SaveReturn(t) ==
    /\ save[t].pc = "schedule"
    /\ save[t].pending_tasks = <<>>
    /\ save' = [save EXCEPT ![t].pc = "done"]
    /\ lock' = IF lock = HeldBySave(t) THEN Free ELSE lock
    /\ phase' = IF phase = "constructing" THEN "transferred" ELSE phase
    /\ UNCHANGED <<raw, options, call, result, holder, state, transferIn,
                   resolvers, tasks, scheduled, registered, settledBy>>

\* ------------------------------------------------------------- TransferIn

\* TransferInBody without the test of resolved: every resolver is parked.
TransferInBodyAlwaysParks(st, w) ==
    [state |-> [st EXCEPT !.waiting = Append(@, w)], registered |-> TRUE,
     outcome |-> <<>>]

\* TransferInBody that also parks the resolver it has just settled.
TransferInBodyAlwaysQueues(st, w) ==
    IF st.resolved
    THEN [state |-> [st EXCEPT !.waiting = Append(@, w)], registered |-> TRUE,
          outcome |-> <<[via |-> "immediate", rejected |-> st.did_throw,
                         value |-> Materialize(st.value)]>>]
    ELSE [state |-> [st EXCEPT !.waiting = Append(@, w)], registered |-> TRUE,
          outcome |-> <<>>]

\* TransferInBody that resolves without reading lock->did_throw.
TransferInBodyAlwaysResolves(st, w) ==
    IF st.resolved
    THEN [state |-> st, registered |-> FALSE,
          outcome |-> <<[via |-> "immediate", rejected |-> FALSE,
                         value |-> Materialize(st.value)]>>]
    ELSE [state |-> [st EXCEPT !.waiting = Append(@, w)], registered |-> TRUE,
          outcome |-> <<>>]

\* What TransferIn does with the lock held: a resolved state settles the new
\* resolver at once, an unresolved one gets the resolver appended to waiting.
TransferInBody(st, w) ==
    IF st.resolved
    THEN [state |-> st, registered |-> FALSE,
          outcome |-> <<[via |-> "immediate", rejected |-> st.did_throw,
                         value |-> Materialize(st.value)]>>]
    ELSE [state |-> [st EXCEPT !.waiting = Append(@, w)], registered |-> TRUE,
          outcome |-> <<>>]

\* The w-th TransferIn call (calls are numbered in the order they take the
\* lock) makes its resolver in isolate r (isolates are numbered in the order
\* they first call TransferIn) and takes the lock.
TransferInLock(w, r) ==
    /\ phase = "transferred"
    /\ result = PromiseTransferable
    /\ transferIn[w].pc = "idle"
    /\ \A u \in Waiters : u < w => transferIn[u].pc # "idle"
    /\ \A q \in Realms : q < r => \E u \in Waiters : transferIn[u].realm = q
    /\ lock = Free
    /\ lock' = HeldByTransferIn(w)
    /\ transferIn' = [transferIn EXCEPT ![w] = [pc |-> "locked", realm |-> r]]
    /\ UNCHANGED <<phase, raw, options, call, result, holder, state, save, resolvers,
                   tasks, scheduled, registered, settledBy>>

\* TransferIn giving the lock up before it settles the resolver of a resolved
\* state.
LockInTransferInReleasedEarly(st, w) ==
    IF st.resolved THEN Free ELSE HeldByTransferIn(w)

\* The lock while TransferIn runs its if statement: auto lock is a local of
\* TransferIn itself, so the call holds it in both branches.
LockInTransferIn(st, w) == HeldByTransferIn(w)

\* TransferIn settles or registers its resolver.
TransferInLocked(w) ==
    /\ transferIn[w].pc = "locked"
    /\ lock = HeldByTransferIn(w)
    /\ LET b == TransferInBody(state, w)
       IN  /\ state' = b.state
           /\ resolvers' = [resolvers EXCEPT ![w] = @ \o b.outcome]
           /\ registered' = IF b.registered THEN Append(registered, w)
                            ELSE registered
    /\ transferIn' = [transferIn EXCEPT ![w].pc = "return"]
    /\ lock' = LockInTransferIn(state, w)
    /\ UNCHANGED <<phase, raw, options, call, result, holder, save, tasks, scheduled,
                   settledBy>>

\* TransferIn returns the promise, which ends the life of its locals: the
\* lock is released.
TransferInReturn(w) ==
    /\ transferIn[w].pc = "return"
    /\ transferIn' = [transferIn EXCEPT ![w].pc = "done"]
    /\ lock' = IF lock = HeldByTransferIn(w) THEN Free ELSE lock
    /\ UNCHANGED <<phase, raw, options, call, result, holder, state, save, resolvers,
                   tasks, scheduled, registered, settledBy>>

\* -------------------------------------------------------------- scheduler

\* Isolate r runs the oldest ResolveTask of its queue.
RunTask(r) ==
    /\ tasks[r] # <<>>
    /\ resolvers' = [resolvers EXCEPT ![Head(tasks[r]).resolver] =
                       Append(@, RunOutcome(Head(tasks[r])))]
    /\ tasks' = [tasks EXCEPT ![r] = Tail(@)]
    /\ UNCHANGED <<phase, raw, options, call, result, holder, state, lock, save,
                   transferIn, scheduled, registered, settledBy>>

Next ==
    \/ ParseOptionsCall
    \/ TransferOutCall
    \/ TransferOutPromise
    \/ Resolved
    \/ Rejected
    \/ Destructor
    \/ \E t \in Triggers : SaveLocked(t)
    \/ \E t \in Triggers : SaveSchedule(t)
    \/ \E t \in Triggers : SaveReturn(t)
    \/ \E w \in Waiters, r \in Realms : TransferInLock(w, r)
    \/ \E w \in Waiters : TransferInLocked(w)
    \/ \E w \in Waiters : TransferInReturn(w)
    \/ \E r \in Realms : RunTask(r)

Spec == Init /\ [][Next]_vars

\* A Save or TransferIn call that has started runs on: its thread is not
\* stopped for ever, and whoever holds the lock releases it.  Every isolate
\* eventually runs the tasks scheduled on it.  Nothing obliges a promise to
\* settle, a holder to be destroyed or a TransferIn call to be made.
Fairness ==
    /\ \A t \in Triggers : WF_vars(SaveLocked(t))
    /\ \A t \in Triggers : WF_vars(SaveSchedule(t))
    /\ \A t \in Triggers : WF_vars(SaveReturn(t))
    /\ \A w \in Waiters : WF_vars(TransferInLocked(w))
    /\ \A w \in Waiters : WF_vars(TransferInReturn(w))
    /\ \A r \in Realms : WF_vars(RunTask(r))

\* The steps of a system whose pending promises never settle: neither
\* continuation ever fires.
NeverSettlesNext ==
    \/ ParseOptionsCall
    \/ TransferOutCall
    \/ TransferOutPromise
    \/ Destructor
    \/ \E t \in Triggers : SaveLocked(t)
    \/ \E t \in Triggers : SaveSchedule(t)
    \/ \E t \in Triggers : SaveReturn(t)
    \/ \E w \in Waiters, r \in Realms : TransferInLock(w, r)
    \/ \E w \in Waiters : TransferInLocked(w)
    \/ \E w \in Waiters : TransferInReturn(w)
    \/ \E r \in Realms : RunTask(r)

AbandonSpec == Init /\ [][NeverSettlesNext]_vars /\ Fairness

\* -------------------------------------------------------------- properties

\* The number of indices of sequence q whose element satisfies Test.
CountIn(q, Test(_)) == Cardinality({i \in 1..Len(q) : Test(q[i])})

\* How many ResolveTasks Save has handed to the scheduler for resolver w.
TasksFor(w) == CountIn(scheduled, LAMBDA k : k.resolver = w)

\* How many times resolver w sits in the waiting queue or in the drained
\* queue of a Save call that has not scheduled it yet.
Parked(w) ==
    CountIn(state.waiting, LAMBDA k : k = w)
      + CountIn(save["Resolved"].pending_tasks, LAMBDA k : k = w)
      + CountIn(save["Rejected"].pending_tasks, LAMBDA k : k = w)
      + CountIn(save["Destructor"].pending_tasks, LAMBDA k : k = w)

\* How many times resolver w was settled inside TransferIn / by a ResolveTask.
ToldVia(w, via) == CountIn(resolvers[w], LAMBDA k : k.via = via)

\* No Save call is between its first and its last step.
NoSaveRunning == \A t \in Triggers : save[t].pc \in {"idle", "done"}

\* C1 -- single settlement: whatever the order in which Resolved, Rejected and
\* the destructor call Save, at most one call records a settlement, exactly
\* one has once any call has left its critical section, no resolver is told
\* twice, and every resolver that is told is told the recorded value and the
\* recorded rejection flag.
C1_SingleSettlement ==
    /\ Len(settledBy) <= 1
    /\ (\E t \in Triggers : save[t].pc \in {"schedule", "done"})
         => (Len(settledBy) = 1 /\ state.resolved)
    /\ \A w \in Waiters :
         /\ Len(resolvers[w]) <= 1
         /\ \A i \in 1..Len(resolvers[w]) :
              /\ state.resolved
              /\ resolvers[w][i].rejected = state.did_throw
              /\ resolvers[w][i].value = Materialize(state.value)

\* The fulfilment continuation and the destructor have both run Save, and
\* one resolver was told by a task and another inside TransferIn.
C1_Witness ==
    /\ save["Resolved"].pc = "done"
    /\ save["Destructor"].pc = "done"
    /\ Len(settledBy) = 1
    /\ \E w, u \in Waiters : ToldVia(w, "task") = 1 /\ ToldVia(u, "immediate") = 1

\* C2 -- registration/settlement atomicity: a resolver whose TransferIn has
\* run its if statement was either settled inside TransferIn and never parked, or parked
\* exactly once and never settled inside TransferIn; a parked resolver is in
\* the waiting queue, or in the queue a Save drained, or has exactly one
\* ResolveTask, and has its task once the settling Save is over.
C2_RegistrationAtomic ==
    \A w \in Waiters :
      IF transferIn[w].pc \in {"return", "done"}
      THEN /\ \/ ToldVia(w, "immediate") = 1 /\ Parked(w) + TasksFor(w) = 0
              \/ ToldVia(w, "immediate") = 0 /\ Parked(w) + TasksFor(w) = 1
           /\ (state.resolved /\ NoSaveRunning /\ ToldVia(w, "immediate") = 0)
                => TasksFor(w) = 1
           /\ ToldVia(w, "task") <= TasksFor(w)
      ELSE ToldVia(w, "immediate") + Parked(w) + TasksFor(w) = 0

\* While the settling Save is still scheduling, one resolver already has its
\* task, another is still in the drained queue and a third TransferIn has seen
\* the settled state.
C2_Witness ==
    \E t \in Triggers, w, u \in Waiters :
      /\ save[t].pc = "schedule"
      /\ save[t].pending_tasks # <<>>
      /\ TasksFor(w) = 1
      /\ transferIn[u].pc = "done"
      /\ ToldVia(u, "immediate") = 1

\* C4 -- FIFO delivery: the ResolveTasks are handed to the scheduler in the
\* order in which their resolvers were appended to waiting, each to the
\* isolate of its resolver, and once the settling Save is over every
\* registered resolver has had exactly one.
C4_FifoDelivery ==
    /\ Len(scheduled) <= Len(registered)
    /\ \A i \in 1..Len(scheduled) :
         /\ scheduled[i].resolver = registered[i]
         /\ scheduled[i].realm = transferIn[registered[i]].realm
    /\ \A w \in Waiters : TasksFor(w) <= 1
    /\ (state.resolved /\ NoSaveRunning) => Len(scheduled) = Len(registered)

\* Three resolvers registered one after the other and all three tasks were
\* scheduled.
C4_Witness ==
    /\ Len(registered) >= 3
    /\ registered[1] = 1 /\ registered[2] = 2 /\ registered[3] = 3
    /\ Len(scheduled) = Len(registered)

\* C5 -- write-once settlement state: resolved never goes back to false, and
\* value, did_throw and resolved change in one step only, taken by a Save call
\* that holds the lock on a state that was not resolved and is resolved
\* afterwards, the first and only call to record a settlement.
C5_WriteOnce ==
    [][ /\ state.resolved => state'.resolved
        /\ (\/ state'.value # state.value
            \/ state'.did_throw # state.did_throw
            \/ state'.resolved # state.resolved
            \/ settledBy' # settledBy)
             => /\ ~state.resolved
                /\ state'.resolved
                /\ lock.save # "none"
                /\ settledBy = <<>>
                /\ settledBy' = <<lock.save>> ]_vars

\* The state was settled by one call and a later call of Save has come and
\* gone with the lock free again.
C5_Witness ==
    /\ state.resolved
    /\ lock = Free
    /\ settledBy = <<"Rejected">>
    /\ save["Destructor"].pc = "done"

\* The error copy RunCatchExternal makes of the RuntimeTypeError TransferOut
\* throws.
MarshalError == ExternalCopyError(NonTransferableMessage)

\* C6 -- a marshaling failure becomes a rejection: when the callback of the
\* settling Save throws, Save goes on to its loop with value set to the error
\* copy and both the stored and the local did_throw true; every task made
\* and every resolver told of such a bridge carries the rejection and the
\* error.
C6_MarshalFailureRejects ==
    /\ [](state.value = MarshalError =>
            /\ state.did_throw
            /\ \A i \in 1..Len(scheduled) :
                 scheduled[i].did_throw /\ scheduled[i].value = MarshalError
            /\ \A w \in Waiters : \A i \in 1..Len(resolvers[w]) :
                 /\ resolvers[w][i].rejected
                 /\ resolvers[w][i].value =
                      [kind |-> "error", of |-> NonTransferableMessage])
    /\ [][ \A t \in Triggers :
             (/\ SaveLocked(t)
              /\ ~state.resolved
              /\ IsThrown(Callback(t, save[t].arg, holder.transfer_options)))
               => /\ state'.resolved
                  /\ state'.did_throw
                  /\ state'.value = MarshalError
                  /\ save'[t].pc = "schedule"
                  /\ save'[t].did_throw
                  /\ save'[t].resolved_value = MarshalError
                  /\ save'[t].pending_tasks = state.waiting ]_vars

\* The fulfilment continuation settled the bridge with the error of a failed
\* TransferOut and a parked resolver was rejected by its task.
C6_Witness ==
    /\ settledBy = <<"Resolved">>
    /\ state.value = MarshalError
    /\ state.did_throw
    /\ \E w \in Waiters :
         resolvers[w] = <<[via |-> "task", rejected |-> TRUE,
                           value |-> [kind |-> "error",
                                      of |-> NonTransferableMessage]]>>

\* C7 -- materialize after settlement: a TransferIn that finds the state
\* resolved tells its resolver at once, rejecting or resolving as the stored
\* did_throw says with the stored value, appends nothing to waiting and
\* schedules nothing; on a bridge the destructor settled it rejects with the
\* abandonment error.
C7_MaterializeAfterSettlement ==
    [][ \A w \in Waiters :
          (TransferInLocked(w) /\ state.resolved)
            => /\ resolvers'[w] = <<[via |-> "immediate",
                                     rejected |-> state.did_throw,
                                     value |-> Materialize(state.value)]>>
               /\ state' = state
               /\ registered' = registered
               /\ tasks' = tasks
               /\ settledBy = <<"Destructor">>
                    => resolvers'[w] = <<[via |-> "immediate", rejected |-> TRUE,
                                          value |-> [kind |-> "error",
                                                     of |-> AbandonedMessage]]>> ]_vars

\* Two TransferIn calls made after the destructor settled the bridge were
\* both rejected at once with the abandonment error.
C7_Witness ==
    /\ settledBy = <<"Destructor">>
    /\ state.waiting = <<>>
    /\ \E w, u \in Waiters :
         /\ w # u
         /\ transferIn[w].realm # transferIn[u].realm
         /\ \A x \in {w, u} :
              resolvers[x] = <<[via |-> "immediate", rejected |-> TRUE,
                                value |-> [kind |-> "error",
                                           of |-> AbandonedMessage]]>>

\* How many of the three flags copy, externalCopy and reference the bag sets.
FlagsSet(bag) ==
    (IF bag.copy THEN 1 ELSE 0) + (IF bag.externalCopy THEN 1 ELSE 0)
      + (IF bag.reference THEN 1 ELSE 0)

\* C8 -- option parsing mutual exclusion: parsing a bag succeeds exactly when
\* at most one of copy, externalCopy and reference is set and throws the
\* "only one of" error otherwise; on success type is the one flag set (None
\* without any) and promise is the bag's promise flag.
C8_ParseMutualExclusion ==
    (phase # "start" /\ raw.present) =>
      /\ options.ok <=> FlagsSet(raw) <= 1
      /\ ~options.ok => (phase = "failed" /\ result = Thrown(OnlyOneMessage))
      /\ options.ok =>
           /\ phase # "failed"
           /\ options.promise = raw.promise
           /\ raw.copy => options.type = "Copy"
           /\ raw.externalCopy => options.type = "ExternalCopy"
           /\ raw.reference => options.type = "Reference"
           /\ FlagsSet(raw) = 0 => options.type = "None"

\* A bag with copy and reference set (and the promise flag) was refused.
C8_Witness ==
    /\ phase = "failed"
    /\ raw.copy /\ raw.reference /\ ~raw.externalCopy /\ raw.promise

\* C9 -- strict versus optional dispatch: the strict call throws the
\* non-transferable error exactly when the optional call on the same value and
\* options returns nothing and returns the same transferable otherwise; for a
\* plain object with type None and fallback None the optional call returns
\* nothing and the strict call throws.
C9_StrictVersusOptional ==
    (phase \in {"constructing", "transferred"}) =>
      /\ ~call.strict => ~IsThrown(result)
      /\ call.strict =>
           /\ result # Nothing
           /\ result = Thrown(NonTransferableMessage)
                <=> OptionalTransferOut(call.value, options) = Nothing
           /\ ~IsThrown(result) => result = OptionalTransferOut(call.value, options)
      /\ (/\ call.value = PlainValue("plainObject")
          /\ ~options.promise
          /\ options.type = "None"
          /\ options.fallback = "None")
           => IF call.strict THEN result = Thrown(NonTransferableMessage)
              ELSE result = Nothing

\* The strict call on a plain object with nothing to fall back on has thrown.
C9_Witness ==
    /\ phase = "transferred"
    /\ call.strict
    /\ call.value = PlainValue("plainObject")
    /\ options.type = "None" /\ options.fallback = "None" /\ ~options.promise
    /\ result = Thrown(NonTransferableMessage)

\* C10 -- transfer as promise always produces a promise: with options.promise
\* set the call returns the TransferablePromise whatever the value, type and
\* fallback are, also where the dispatch on type would return nothing; a holder
\* is made and given the promise in the state it was in, and for a value that
\* is no promise the bridge is resolved, by Resolved, when the call returns.
\* Without options.promise no holder is made.
C10_PromiseOptionAlwaysPromise ==
    (phase \in {"constructing", "transferred"}) =>
      IF options.promise
      THEN /\ result = PromiseTransferable
           /\ holder.exists
           /\ ~holder.transfer_options.promise
           /\ IsPromise(call.value) => holder.accepted = call.value.pstate
           /\ ~IsPromise(call.value) => holder.accepted = "value"
           /\ (phase = "transferred" /\ ~IsPromise(call.value))
                => (state.resolved /\ settledBy = <<"Resolved">>)
           /\ (phase = "transferred" /\ holder.accepted = "kPending" /\ NoSaveRunning
               /\ \A t \in Triggers : save[t].pc = "idle")
                => ~state.resolved
      ELSE ~holder.exists /\ result # PromiseTransferable

\* The optional call with the promise option on a plain object that the
\* dispatch on type would refuse has returned a resolved bridge.
C10_Witness ==
    /\ phase = "transferred"
    /\ options.promise /\ options.type = "None" /\ options.fallback = "None"
    /\ ~call.strict
    /\ call.value = PlainValue("plainObject")
    /\ TypeDispatch(call.value, options) = Nothing
    /\ result = PromiseTransferable
    /\ state.resolved

\* What a resolver is told when its task rejects it with the abandonment
\* error.
AbandonedByTask ==
    [via |-> "task", rejected |-> TRUE,
     value |-> [kind |-> "error", of |-> AbandonedMessage]]

\* C3 -- abandonment liveness: once the destructor has settled the bridge,
\* every resolver registered on it eventually has exactly one ResolveTask,
\* carrying did_throw and the "Promise was abandoned" error copy, and has been
\* rejected with that error by it (the promise never settles and the isolates run their tasks:
\* AbandonSpec).
C3_AbandonmentLiveness ==
    \A w \in Waiters :
      (settledBy = <<"Destructor">> /\ CountIn(registered, LAMBDA k : k = w) = 1)
        ~> (/\ resolvers[w] = <<AbandonedByTask>>
            /\ TasksFor(w) = 1
            /\ \A i \in 1..Len(scheduled) :
                 scheduled[i].resolver = w
                   => /\ scheduled[i].did_throw
                      /\ scheduled[i].value = ExternalCopyError(AbandonedMessage))

\* The promise never settled, three resolvers were registered, the holder was
\* destroyed and all three were rejected with the abandonment error.
C3_Witness ==
    /\ settledBy = <<"Destructor">>
    /\ holder.accepted = "kPending"
    /\ save["Resolved"].pc = "idle" /\ save["Rejected"].pc = "idle"
    /\ Len(registered) = 3
    /\ \A i \in 1..3 : resolvers[registered[i]] = <<AbandonedByTask>>

\* What the optional form of the call made returned: a strict call that threw
\* the non-transferable error stands for a null result.
OptionalResult ==
    IF result = Thrown(NonTransferableMessage) THEN Nothing ELSE result

\* C11 -- dispatch precedence with type None and no promise option: a handle
\* object is delegated to whatever the fallback is; otherwise a primitive is
\* copied by CopyIfPrimitive whatever the fallback is; only otherwise does the
\* fallback type choose the transferable, none when the fallback is None.
C11_DispatchPrecedence ==
    (phase = "transferred" /\ ~options.promise /\ options.type = "None") =>
      LET v == call.value IN
        IF v.shape = "transferableHandle"
        THEN result = Transferable("Native", v.shape)
        ELSE IF v.shape \in {"boolean", "number", "string", "null", "undefined"}
        THEN result = Transferable("Copy", v.shape)
        ELSE /\ options.fallback = "Copy"
                  => result = Transferable("Copy", v.shape)
             /\ options.fallback = "ExternalCopy"
                  => result = Transferable("ExternalCopy", v.shape)
             /\ options.fallback = "Reference"
                  => result = Transferable("Reference", v.shape)
             /\ options.fallback = "None"
                  => (OptionalResult = Nothing /\ (call.strict <=> IsThrown(result)))

\* A string was copied, and a handle delegated to, although the fallback asks
\* for a reference.
C11_Witness ==
    /\ phase = "transferred"
    /\ ~options.promise /\ options.type = "None" /\ options.fallback = "Reference"
    /\ call.value = PlainValue("string")
    /\ result = Transferable("Copy", "string")

\* What settling with the promise's result must store, as <<value, did_throw>>:
\* fulfilment transfers the result out with the promise option off, and a
\* failure there stores the error and rejects; rejection copies the reason.
ExpectedStored(t, v, o) ==
    IF t = "Rejected" THEN <<CopyIfPrimitiveOrError(v), TRUE>>
    ELSE LET out == TransferOut(v, [o EXCEPT !.promise = FALSE])
         IN  IF IsThrown(out) THEN <<MarshalError, TRUE>> ELSE <<out, FALSE>>

\* C12 -- immediate settlement at attach: for a promise already fulfilled or
\* rejected when Accept reads it, the matching settlement runs inside the
\* transfer-out call and has recorded the promise's outcome when the call
\* returns, no continuation exists for it, and no resolver is ever parked or
\* given a task; for a pending promise the call returns with the state
\* unresolved and both continuations able to fire.
C12_ImmediateSettlement ==
    /\ holder.accepted \in {"kFulfilled", "kRejected"} =>
         LET t == IF holder.accepted = "kFulfilled" THEN "Resolved" ELSE "Rejected"
             u == IF holder.accepted = "kFulfilled" THEN "Rejected" ELSE "Resolved"
             e == ExpectedStored(t, PlainValue(call.value.result), options)
         IN  /\ save[u].pc = "idle"
             /\ ~ENABLED Resolved
             /\ ~ENABLED Rejected
             /\ phase = "constructing" => save[t].pc \in {"locked", "schedule"}
             /\ phase = "transferred" =>
                  /\ save[t].pc = "done"
                  /\ state.resolved
                  /\ settledBy = <<t>>
                  /\ state.value = e[1]
                  /\ state.did_throw = e[2]
             /\ registered = <<>>
             /\ state.waiting = <<>>
             /\ scheduled = <<>>
    /\ (holder.accepted = "kPending" /\ \A t \in Triggers : save[t].pc = "idle") =>
         /\ phase = "transferred"
         /\ ~state.resolved
         /\ settledBy = <<>>
         /\ lock = Free => (ENABLED Resolved /\ ENABLED Rejected)

\* A promise already rejected with an error object was accepted, and a
\* TransferIn made after the call returned was rejected on the spot.
C12_Witness ==
    /\ holder.accepted = "kRejected"
    /\ call.value.result = "errorObject"
    /\ phase = "transferred"
    /\ state.did_throw
    /\ \E w \in Waiters : ToldVia(w, "immediate") = 1 /\ resolvers[w][1].rejected

\* C13 -- delivery always deferred and realm-bound: a resolver that was parked
\* is never told during a step of Save, whichever isolate Save runs on; it is
\* told only by the run of the ResolveTask made for it, taken from the head
\* of the queue of the isolate its TransferIn was called in, and every queued
\* task sits in the queue of its own resolver's isolate.
C13_DeferredRealmBound ==
    [][ /\ \A w \in Waiters :
             (resolvers'[w] # resolvers[w] /\ \E i \in 1..Len(registered) : registered[i] = w)
               => /\ save' = save
                  /\ scheduled' = scheduled
                  /\ state' = state
                  /\ LET r == transferIn[w].realm
                     IN  /\ tasks[r] # <<>>
                         /\ Head(tasks[r]).resolver = w
                         /\ tasks' = [tasks EXCEPT ![r] = Tail(@)]
                         /\ resolvers'[w] = Append(resolvers[w], RunOutcome(Head(tasks[r])))
        /\ \A r \in Realms : \A i \in 1..Len(tasks'[r]) :
             /\ tasks'[r][i].realm = r
             /\ transferIn'[tasks'[r][i].resolver].realm = r
        /\ (\E t \in Triggers : save'[t] # save[t]) => resolvers' = resolvers
      ]_vars

\* Two resolvers parked from different isolates were each told by a task
\* after the Save that drained them had returned.
C13_Witness ==
    /\ NoSaveRunning
    /\ Len(settledBy) = 1
    /\ \E w, u \in Waiters :
         /\ transferIn[w].realm # transferIn[u].realm
         /\ ToldVia(w, "task") = 1
         /\ ToldVia(u, "task") = 1

\* C14 -- critical-section boundaries of Save: the callback's value, the
\* writes of value, did_throw and resolved and the emptying of waiting are made
\* together by the Save that holds the lock, which releases it with them and
\* makes no task while it does; every ResolveTask is made and scheduled by a
\* Save that is past its critical section and does not hold the lock.
C14_CriticalSection ==
    [][ /\ \A t \in Triggers :
             (save[t].pc = "locked" /\ save'[t].pc # "locked")
               => /\ lock = HeldBySave(t)
                  /\ lock' = Free
                  /\ state' = SaveCritical(state, save[t].did_throw,
                                Callback(t, save[t].arg, holder.transfer_options)).state
                  /\ scheduled' = scheduled
                  /\ tasks' = tasks
        /\ (\/ state'.value # state.value
            \/ state'.did_throw # state.did_throw
            \/ state'.resolved # state.resolved
            \/ Len(state'.waiting) < Len(state.waiting))
             => \E t \in Triggers :
                  /\ lock = HeldBySave(t)
                  /\ save[t].pc = "locked"
                  /\ save'[t].pc = "schedule"
        /\ scheduled' # scheduled
             => /\ lock.save = "none"
                /\ lock'.save = "none"
                /\ \E t \in Triggers : save[t].pc = "schedule" /\ save[t].pending_tasks # <<>>
      ]_vars

\* A Save is in the middle of its loop, one task made and one still to make,
\* while a TransferIn call holds the lock.
C14_Witness ==
    \E t \in Triggers :
      /\ save[t].pc = "schedule"
      /\ scheduled # <<>>
      /\ save[t].pending_tasks # <<>>
      /\ lock.transferIn # 0

\* C15 -- TransferIn on a resolved state, as claimed: once the resolver has
\* been told inside TransferIn, the call that told it no longer holds the
\* lock, which it released before materializing the stored value.
C15_LockReleasedBeforeMaterializing ==
    \A w \in Waiters :
      ToldVia(w, "immediate") = 1 => lock # HeldByTransferIn(w)

\* C15 -- TransferIn on a resolved state, as the code does it: the call holds
\* the lock from before it reads resolved until it returns, so the resolver
\* it settles on the spot is told while the lock is held and the lock is
\* released only by the return.
C15_LockHeldWhileMaterializing ==
    \A w \in Waiters :
      /\ transferIn[w].pc \in {"locked", "return"} => lock = HeldByTransferIn(w)
      /\ transferIn[w].pc \in {"idle", "done"} => lock # HeldByTransferIn(w)

\* A TransferIn call on a resolved state has told its resolver and has not
\* returned yet: it still holds the lock.
C15_Witness ==
    \E w \in Waiters :
      /\ transferIn[w].pc = "return"
      /\ state.resolved
      /\ ToldVia(w, "immediate") = 1
      /\ lock = HeldByTransferIn(w)

\* C16 -- idempotent settlement: the critical section of a Save that finds
\* the state resolved leaves value, did_throw, resolved and waiting as they
\* are, records no settlement and drains no resolver, and only the Save that
\* settled the state ever schedules a task.
C16_IdempotentSettlement ==
    [][ /\ \A t \in Triggers :
             (save[t].pc = "locked" /\ save'[t].pc = "schedule" /\ state.resolved)
               => /\ state' = state
                  /\ settledBy' = settledBy
                  /\ save'[t].pending_tasks = <<>>
                  /\ scheduled' = scheduled
                  /\ tasks' = tasks
                  /\ resolvers' = resolvers
        /\ scheduled' # scheduled
             => \E t \in Triggers : save[t].pc = "schedule" /\ settledBy = <<t>>
      ]_vars

\* The destructor's Save has run to its end on a state the rejection
\* continuation had settled, after that Save had given every parked resolver
\* its task.
C16_Witness ==
    /\ settledBy = <<"Rejected">>
    /\ save["Rejected"].pc = "done"
    /\ save["Destructor"].pc = "done"
    /\ Len(registered) = 2
    /\ Len(scheduled) = 2

\* C17 -- inner classification with the promise option off: the holder made
\* for a promise transfer keeps the caller's type and fallback with promise
\* false, a fulfilment stores what the type dispatch gives for the value under
\* those options (the non-transferable error when it gives nothing), and the
\* stored value is never a promise transferable.
C17_InnerClassification ==
    [][ /\ holder'.exists =>
             /\ holder'.transfer_options = [options' EXCEPT !.promise = FALSE]
             /\ options'.promise
        /\ (save["Resolved"].pc = "locked" /\ save'["Resolved"].pc = "schedule"
              /\ ~state.resolved)
             => LET inner == TypeDispatch(save["Resolved"].arg, options)
                IN  state'.value = IF inner = Nothing THEN MarshalError ELSE inner
        /\ state'.value.variant # "Promise"
      ]_vars

\* A promise transferred with the reference and promise options was fulfilled
\* with an object, and the state stores a reference to it.
C17_Witness ==
    /\ options.promise
    /\ options.type = "Reference"
    /\ settledBy = <<"Resolved">>
    /\ state.value = Transferable("Reference", "plainObject")
    /\ ~state.did_throw

\* C18 -- settled implies drained: in every state where nobody holds the lock,
\* a resolved state has an empty waiting queue; a resolver sits in waiting
\* only while the state is unresolved.
C18_SettledImpliesDrained ==
    lock = Free => (state.resolved => state.waiting = <<>>)

\* The lock is free just after a Save settled the state and took two parked
\* resolvers out of waiting, neither of which has its task yet.
C18_Witness ==
    /\ lock = Free
    /\ state.resolved
    /\ state.waiting = <<>>
    /\ \E t \in Triggers : save[t].pc = "schedule" /\ Len(save[t].pending_tasks) = 2
    /\ scheduled = <<>>

\* C19 -- task flag matches stored flag: every ResolveTask ever made carries
\* the did_throw and the value the state stores, also when the callback threw
\* and when a later Save was called with the opposite did_throw; such a late
\* call makes no task.
C19_TaskFlagMatchesStored ==
    /\ \A i \in 1..Len(scheduled) :
         /\ state.resolved
         /\ scheduled[i].did_throw = state.did_throw
         /\ scheduled[i].value = state.value
    /\ \A t \in Triggers :
         (save[t].pc = "schedule" /\ save[t].pending_tasks # <<>>)
           => /\ save[t].did_throw = state.did_throw
              /\ save[t].resolved_value = state.value
    /\ \A t \in Triggers :
         (save[t].pc \in {"schedule", "done"} /\ settledBy # <<t>>)
           => save[t].pending_tasks = <<>>

\* The state was fulfilled, its parked resolver got a task flagged as not
\* thrown, and the destructor's Save, called with did_throw true, has run to
\* its end since.
C19_Witness ==
    /\ settledBy = <<"Resolved">>
    /\ ~state.did_throw
    /\ save["Destructor"].pc = "done"
    /\ save["Destructor"].did_throw
    /\ scheduled # <<>>
    /\ \A i \in 1..Len(scheduled) : ~scheduled[i].did_throw

\* C20 -- rejection path ignores the options: a rejection that settles the
\* state stores the copy of the reason that CopyIfPrimitiveOrError makes (the
\* primitive, the error, or the marker for any other object) with did_throw
\* true, whatever type and fallback the caller asked for; those choose the
\* stored value on the fulfilment path only.
C20_RejectionIgnoresOptions ==
    [][ (save["Rejected"].pc = "locked" /\ save'["Rejected"].pc = "schedule"
           /\ ~state.resolved)
          => LET shape == save["Rejected"].arg.shape
             IN  /\ state'.resolved
                 /\ state'.did_throw
                 /\ settledBy' = <<"Rejected">>
                 /\ state'.value =
                      IF shape \in PrimitiveShapes THEN Transferable("Copy", shape)
                      ELSE IF shape = "errorObject"
                      THEN Transferable("ErrorCopy", "errorObject")
                      ELSE Transferable("ErrorCopy", "notAnError")
                 /\ save'["Rejected"].did_throw
      ]_vars

\* A promise transferred with the reference option rejected with a plain
\* object: the state stores the error marker, not the reference the
\* fulfilment path would have made of the object.
C20_Witness ==
    /\ options.type = "Reference"
    /\ settledBy = <<"Rejected">>
    /\ holder.accepted = "kPending"
    /\ state.value = Transferable("ErrorCopy", "notAnError")
    /\ state.did_throw

====
